---------------------------- MODULE Spec2Model ----------------------------
(***************************************************************************)
(* Verification model of the ai-trend-sentinel dashboard.                  *)
(*                                                                         *)
(* Three parts of the program are modelled, each with its own              *)
(* specification over the shared variable list:                            *)
(*   SpecWhale      the fetch-binance-whales edge function                 *)
(*                  (src/unnamed/part_004)                                 *)
(*   SpecSentiment  CoinSentimentView and calculateSentiments              *)
(*                  (src/unnamed/part_000)                                 *)
(*   SpecTS         the TradingSuggestions component                       *)
(*                  (src/src/components/trading/TradingSuggestions.tsx)    *)
(*                                                                         *)
(* An `await` is modelled in two steps: the environment settles the        *)
(* outstanding call (a Settle... action picks its outcome), then the       *)
(* handler resumes (an After... action reads the outcome and runs to the   *)
(* next await or to its return).                                           *)
(***************************************************************************)
EXTENDS Integers, Sequences, FiniteSets, TLC

Null == "null"
\* parseFloat yields no negative number on the modelled inputs: -1 stands for NaN
NaN == 0 - 1

(***************************************************************************)
(* Bounds of the model.                                                    *)
(***************************************************************************)
\* number of symbols the exchange lists (more than PairLimit qualify)
NumSymbols == 13
\* failed trades requests the environment produces in one invocation
MaxFailures == 1
\* failed upserts the environment produces in one invocation
MaxUpsertErrors == 1
\* videos of one sentiment response
MaxVideos == 2
\* comments of one sentiment response, over all its videos
MaxComments == 3
\* sentiment requests of one run of CoinSentimentView
MaxSelections == 3
\* coins useCoinData returns
NumCoins == 3
\* handler invocations (submits and clicks) of one run of TradingSuggestions
MaxInvocations == 3
\* changes other clients make to volatile_trades in one run of CoinVolatileView
MaxChanges == 1
\* clicks on a coin in one run of CoinVolatileView
MaxClicks == 2

(***************************************************************************)
(* Program constants of the edge function.                                 *)
(***************************************************************************)
WHALE_THRESHOLD == 100000
\* usdtPairs.slice(0, 10)
PairLimit == 10

VARIABLES
    \* ---- fetch-binance-whales, one invocation ----
    req,          \* the incoming request: method and Authorization header
    exchange,     \* environment: the symbols the exchange lists
    pc,           \* position of the handler
    user,         \* user returned by auth.getUser, or Null
    apiKeys,      \* api_keys row, or Null
    usdtPairs,    \* usdtPairs.slice(0, 10), the loop's range
    pairIdx,      \* position of the for loop over the pairs
    whaleTrades,  \* whaleTrades of the current pair
    tradeIdx,     \* position of the for loop over whaleTrades
    whales,       \* the response's whales array
    response,     \* the Response returned, or NoResponse
    inflight,     \* outbound calls issued and not yet settled
    returned,     \* settled calls whose outcome the handler has not read yet
    issued,       \* history: every outbound call, in order of issue
    outcomes,     \* history: every settled call with its outcome
    \* ---- CoinSentimentView ----
    served,           \* environment: the videos the sentiment endpoint holds
    availableCoins,   \* useState<string[]>([])
    loadingCoins,     \* useState(true); the coin search is outstanding
    selectedCoin,     \* useState<string>("")
    sentimentData,    \* useState<SentimentData | null>(null): <<>> is null, <<d>> is d
    loading,          \* useState(false)
    sentimentFetches, \* sentiment requests issued and not yet settled
    fetchCount,       \* history: number of sentiment requests issued
    sentimentToasts,  \* history: number of error notifications shown
    stats,            \* calculateSentiments() of the last render
    \* ---- TradingSuggestions and its backend ----
    session,          \* backend: the signed-in user, or Null
    trade_views,      \* backend: the rows of trade_views
    insertRequests,   \* the inserts into coin_indicators issued, in order
    started,          \* useState(false)
    isTradeNameDialogOpen, \* useState(false)
    tradeView,        \* useState<TradeViewState>: id (0 is null) and currentIndex
    coins,            \* useCoinData().data, as resolved
    handlers,         \* the async handlers that are at an await
    invocations,      \* history: number of handler invocations
    lastStep,         \* history: what the last resumed handler did
    \* ---- CoinVolatileView and its backend ----
    vSession,         \* backend: the signed-in user, or Null
    volatile_trades,  \* backend: the rows of volatile_trades
    undelivered,      \* backend: change events of volatile_trades not yet delivered
    mounted,          \* the component is mounted
    subscribed,       \* the channel volatile-trades-changes is subscribed
    queryAt,          \* position of the queryFn: idle, getSession or invoke
    queryStatus,      \* pending, success or error
    volatileCoins,    \* data of the volatile-coins query (coins)
    changeEvents,     \* history: number of change events the callback received
    callbackErrors,   \* history: number of exceptions thrown by the callback
    tradeClicks,      \* the handleTradeClick calls that are at an await
    clickCount,       \* history: number of clicks on a coin
    tradeInserts,     \* history: the inserts into volatile_trades issued
    location,         \* router: id of /trading/volatile/<id>, 0 on the list
    vLastStep,        \* history: what the last resumed handleTradeClick did
    \* ---- processTradesData of CombinedPerformanceChart ----
    pTrades,          \* the trades argument
    pFilter,          \* the filter prop: none, or the status a trade must have
    sortedTrades,     \* trades.sort(...), once sorted
    chartResult,      \* the chart data returned
    pPc,              \* position: start, sorted or done
    \* ---- CombinedPerformanceChart and its backend ----
    cMounted,         \* the component is mounted
    cViewId,           \* searchParams.get('view'), or Null
    cFilter,           \* the cFilter prop
    channels,         \* the realtime channels that are subscribed
    chartFetches,     \* the fetchData calls that are at their await
    fetchSeq,         \* history: number of fetchData calls
    eventsReceived,   \* history: number of change events delivered
    effectRuns,       \* history: number of runs of the effect
    chartData,             \* useState<ChartData[]>([])
    chartToasts,      \* history: number of error notifications shown
    \* ---- Assets page and its backend ----
    aSession,         \* backend: the signed-in user, or Null
    assetsTable,      \* backend: the rows of assets, ordered by symbol
    aMounted,         \* the page is mounted
    authAt,           \* position of checkAuth: getSession or done
    assetsAt,         \* position of the queryFn: idle, sync or read
    assetsStatus,     \* status of the query: pending, success or error
    assets,           \* data of the query: <<>> is undefined, <<rows>> is rows
    failureCount,     \* failed runs of the queryFn since the last success
    assetRuns,        \* history: number of runs of the queryFn
    assetCalls,       \* history: the calls of the queryFn with their outcomes
    assetToasts       \* history: number of error notifications of the queryFn

whaleVars == <<req, exchange, pc, user, apiKeys, usdtPairs, pairIdx,
               whaleTrades, tradeIdx, whales, response, inflight, returned,
               issued, outcomes>>

sentimentVars == <<served, availableCoins, loadingCoins, selectedCoin, sentimentData, loading,
                   sentimentFetches, fetchCount, sentimentToasts, stats>>

tsVars == <<session, trade_views, insertRequests, started,
            isTradeNameDialogOpen, tradeView, coins, handlers, invocations, lastStep>>

volatileVars == <<vSession, volatile_trades, undelivered, mounted, subscribed, queryAt,
                  queryStatus, volatileCoins, changeEvents,
                  callbackErrors, tradeClicks, clickCount, tradeInserts, location,
                  vLastStep>>

processVars == <<pTrades, pFilter, sortedTrades, chartResult, pPc>>

chartVars == <<cMounted, cViewId, cFilter, channels, chartFetches, fetchSeq,
      eventsReceived, effectRuns, chartData, chartToasts>>

assetsVars == <<aSession, assetsTable, aMounted, authAt, assetsAt, assetsStatus, assets,
      failureCount, assetRuns, assetCalls, assetToasts>>

vars == <<whaleVars, sentimentVars, tsVars, volatileVars, processVars, chartVars, assetsVars>>

\* what an action of one part leaves alone: the variables of the other parts
notWhale == <<sentimentVars, tsVars, volatileVars, processVars, chartVars, assetsVars>>
notSentiment == <<whaleVars, tsVars, volatileVars, processVars, chartVars, assetsVars>>
notTS == <<whaleVars, sentimentVars, volatileVars, processVars, chartVars, assetsVars>>
notVolatile == <<whaleVars, sentimentVars, tsVars, processVars, chartVars, assetsVars>>
notProcess == <<whaleVars, sentimentVars, tsVars, volatileVars, chartVars, assetsVars>>
notChart == <<whaleVars, sentimentVars, tsVars, volatileVars, processVars, assetsVars>>
notAssets == <<whaleVars, sentimentVars, tsVars, volatileVars, processVars, chartVars>>

(***************************************************************************)
(* parseFloat on the decimal strings the exchange sends.  A string is a    *)
(* sequence of characters.  The result is NaN when the string does not     *)
(* start with a digit, else the number the longest numeric prefix          *)
(* (digits, optionally '.' and digits) denotes.  Numbers are held in       *)
(* hundredths (two decimal places, the precision of the modelled inputs);  *)
(* exact decimal arithmetic stands for the doubles of the program, and the *)
(* modelled trades are worth less than 214748 so that the products stay    *)
(* within the checker's integers.                                          *)
(***************************************************************************)
Scale == 100

Digits == <<"0", "1", "2", "3", "4", "5", "6", "7", "8", "9">>

IsDigit(c) == \E d \in 1..10 : Digits[d] = c

DigitVal(c) == (CHOOSE d \in 1..10 : Digits[d] = c) - 1

\* length of the longest prefix of s[from..] made of digits
RECURSIVE DigitRun(_, _)
DigitRun(s, from) ==
    IF from <= Len(s) /\ IsDigit(s[from]) THEN 1 + DigitRun(s, from + 1) ELSE 0

RECURSIVE DigitsValue(_)
DigitsValue(s) ==
    IF s = <<>> THEN 0
    ELSE 10 * DigitsValue(SubSeq(s, 1, Len(s) - 1)) + DigitVal(s[Len(s)])

parseFloat(s) ==
    LET n == DigitRun(s, 1)
        whole == DigitsValue(SubSeq(s, 1, n))
        hasFrac == n + 1 <= Len(s) /\ s[n + 1] = "."
        m == IF hasFrac THEN DigitRun(s, n + 2) ELSE 0
        frac == SubSeq(s, n + 2, n + 1 + m)
        \* the first two fraction digits, padded with zeros
        f1 == IF m >= 1 THEN DigitVal(frac[1]) ELSE 0
        f2 == IF m >= 2 THEN DigitVal(frac[2]) ELSE 0
    IN  IF n = 0 THEN NaN ELSE whole * Scale + 10 * f1 + f2

\* parseFloat(trade.price) * parseFloat(trade.qty), in units of 1/Scale^2
TradeValue(trade) ==
    LET p == parseFloat(trade.price)
        q == parseFloat(trade.qty)
    IN  IF p = NaN \/ q = NaN THEN NaN ELSE p * q

\* mutant of IsWhale: the threshold itself is excluded
IsWhaleStrict(trade) ==
    LET value == TradeValue(trade)
    IN  value # NaN /\ value > WHALE_THRESHOLD * Scale * Scale

\* value >= WHALE_THRESHOLD (a comparison with NaN is false)
IsWhale(trade) ==
    LET value == TradeValue(trade)
    IN  value # NaN /\ value >= WHALE_THRESHOLD * Scale * Scale

RECURSIVE SeqFilter(_, _)
SeqFilter(s, i) ==
    IF i > Len(s) THEN <<>>
    ELSE (IF IsWhale(s[i]) THEN <<s[i]>> ELSE <<>>) \o SeqFilter(s, i + 1)

\* tradeData.filter(trade => value >= WHALE_THRESHOLD)
WhaleFilter(tradeData) == SeqFilter(tradeData, 1)

(***************************************************************************)
(* The environment of the edge function: the exchange and its trades.      *)
(***************************************************************************)
Chars(whole, frac) == whole \o <<".">> \o frac

Price250 == Chars(<<"2", "5", "0">>, <<"0", "0">>)
Price333 == Chars(<<"3", "3", "3">>, <<"3", "3">>)
Price500 == Chars(<<"5", "0", "0">>, <<>>)
Price50000 == <<"5", "0", "0", "0", "0">>
PriceBad == <<"a", "b", "c">>
Qty400 == Chars(<<"4", "0", "0">>, <<"0">>)
Qty399 == Chars(<<"3", "9", "9">>, <<"9", "9">>)
Qty300 == <<"3", "0", "0">>
Qty3 == <<"3">>
Qty2x == <<"2", "x">>

Trade(id, price, qty, isBuyerMaker) ==
    [id |-> id, price |-> price, qty |-> qty, isBuyerMaker |-> isBuyerMaker]

\* the recent trades of a symbol, as the trades endpoint serves them
TradeBook(k) ==
    CASE k = 0 -> <<Trade(1, Price250, Qty400, TRUE),      \* exactly 100000
                    Trade(2, Price250, Qty399, FALSE)>>    \* 99997.50
      [] k = 1 -> <<>>
      [] k = 2 -> <<Trade(1, Price333, Qty300, TRUE),      \* 99999
                    Trade(2, PriceBad, Qty400, TRUE),      \* NaN
                    Trade(3, Price50000, Qty3, FALSE),     \* 150000
                    Trade(4, Price50000, Qty2x, TRUE)>>    \* 100000, "2x" -> 2
      [] OTHER -> <<Trade(1, Price500, Qty399, FALSE)>>    \* 199995

\* the trades of the book of a symbol; an id tells a trade from every other
\* trade of the exchange (in the program: its id, time, price and quantity)
Listed(symbol, book) ==
    [i \in 1..Len(book) |-> [book[i] EXCEPT !.id = 10 * symbol + book[i].id]]

TradesOf(symbol) == Listed(symbol, TradeBook(symbol % 4))

\* one entry of exchangeData.symbols
SymbolInfo(i) ==
    [symbol |-> i,
     quoteAsset |-> IF i % 12 = 2 THEN "BTC" ELSE "USDT",
     status |-> IF i % 12 = 5 THEN "BREAK" ELSE "TRADING"]

Listing(n) == [i \in 1..n |-> SymbolInfo(i)]

Listings == {Listing(n) : n \in {0, 4, NumSymbols}}

Requests == [method : {"OPTIONS", "POST"}, authorization : BOOLEAN]

Call(kind, symbol, id) == [kind |-> kind, symbol |-> symbol, id |-> id]

GetUserCall == Call("getUser", 0, 0)
ApiKeysCall == Call("apiKeys", 0, 0)
ExchangeInfoCall == Call("exchangeInfo", 0, 0)
TradesCall(symbol) == Call("trades", symbol, 0)
UpsertCall(symbol, trade) == Call("upsert", symbol, trade.id)

\* fetch or trades.json() throws, or the response is not ok
FailedTrades == {"throw", "notok"}

\* what a call can come back with
Outcomes(call) ==
    CASE call.kind = "getUser" -> {"user", "error"}
      [] call.kind = "apiKeys" -> {"row", "error"}
      [] call.kind = "exchangeInfo" -> {"ok", "throw", "nosymbols"}
      [] call.kind = "trades" -> {"ok"} \cup FailedTrades
      [] OTHER -> {"ok", "error"}

Settled(kind, outcomeSet) ==
    {o \in outcomes : o.call.kind = kind /\ o.outcome \in outcomeSet}

\* the environment settles an outstanding call
Settle ==
    \E call \in inflight : \E o \in Outcomes(call) :
        /\ UNCHANGED notWhale
        /\ (call.kind = "trades" /\ o \in FailedTrades)
               => Cardinality(Settled("trades", FailedTrades)) < MaxFailures
        /\ (call.kind = "upsert" /\ o = "error")
               => Cardinality(Settled("upsert", {"error"})) < MaxUpsertErrors
        /\ inflight' = inflight \ {call}
        /\ returned' = returned \cup {[call |-> call, outcome |-> o]}
        /\ outcomes' = outcomes \cup {[call |-> call, outcome |-> o]}
        /\ UNCHANGED <<req, exchange, pc, user, apiKeys, usdtPairs, pairIdx,
                       whaleTrades, tradeIdx, whales, response, issued>>

(***************************************************************************)
(* The handler of fetch-binance-whales.                                    *)
(***************************************************************************)
Resp(status, kind, error, w) ==
    [status |-> status, kind |-> kind, error |-> error, whales |-> w]

\* no Response has been returned yet
NoResponse == Resp(0, "none", "", <<>>)

\* the promise of the call has settled: `await` lets the handler go on
Awaited(call) == \E r \in returned : r.call = call

OutcomeOf(call) ==
    IF Awaited(call) THEN (CHOOSE r \in returned : r.call = call).outcome
    ELSE "pending"

Consume(call) == {r \in returned : r.call # call}

\* mutant of Throw: the catch block answers with the success response
ThrowAnswersSuccess(message) ==
    /\ pc' = "done"
    /\ response' = Resp(200, "success", "", <<>>)
    /\ UNCHANGED <<inflight, issued, usdtPairs, pairIdx, whaleTrades, tradeIdx,
                   whales>>

\* the outer catch block: status 500 with the error's message
Throw(message) ==
    /\ pc' = "done"
    /\ response' = Resp(500, "error", message, <<>>)
    /\ UNCHANGED <<inflight, issued, usdtPairs, pairIdx, whaleTrades, tradeIdx,
                   whales>>

Issue(call) ==
    /\ inflight' = inflight \cup {call}
    /\ issued' = Append(issued, call)

\* exchangeData.symbols.filter(USDT and TRADING).map(s => s.symbol)
RECURSIVE UsdtFrom(_, _)
UsdtFrom(symbols, i) ==
    IF i > Len(symbols) THEN <<>>
    ELSE (IF symbols[i].quoteAsset = "USDT" /\ symbols[i].status = "TRADING"
          THEN <<symbols[i].symbol>> ELSE <<>>) \o UsdtFrom(symbols, i + 1)

UsdtPairs(symbols) == UsdtFrom(symbols, 1)

\* mutant of Slice: every USDT pair is requested
SliceAll(pairs) == pairs

\* usdtPairs.slice(0, 10)
Slice(pairs) == SubSeq(pairs, 1, IF Len(pairs) < PairLimit THEN Len(pairs) ELSE PairLimit)

\* the head of the for loop over the pairs, at position k, with whales = w:
\* either the trades request of pair k is issued, or the loop is over and
\* the success response is returned
StartPair(pairs, k, w) ==
    /\ pairIdx' = k
    /\ whales' = w
    /\ whaleTrades' = <<>>
    /\ tradeIdx' = 0
    /\ IF k <= Len(pairs)
       THEN /\ pc' = "trades"
            /\ Issue(TradesCall(pairs[k]))
            /\ response' = response
       ELSE /\ pc' = "done"
            /\ response' = Resp(200, "success", "", w)
            /\ UNCHANGED <<inflight, issued>>

\* the head of the for loop over whaleTrades, at position j
IssueUpsert(wt, j) ==
    /\ pc' = "upsert"
    /\ whaleTrades' = wt
    /\ tradeIdx' = j
    /\ Issue(UpsertCall(usdtPairs[pairIdx], wt[j]))
    /\ UNCHANGED <<pairIdx, whales, response>>

\* lines 13-34: preflight, the Authorization header, the call of getUser
HandleRequest ==
    /\ UNCHANGED notWhale
    /\ pc = "start"
    /\ IF req.method = "OPTIONS"
       THEN /\ pc' = "done"
            /\ response' = Resp(200, "preflight", "", <<>>)
            /\ UNCHANGED <<inflight, issued>>
       ELSE IF ~req.authorization
       THEN /\ pc' = "done"
            /\ response' = Resp(500, "error", "No authorization header", <<>>)
            /\ UNCHANGED <<inflight, issued>>
       ELSE /\ pc' = "getUser"
            /\ Issue(GetUserCall)
            /\ response' = response
    /\ UNCHANGED <<req, exchange, user, apiKeys, usdtPairs, pairIdx,
                   whaleTrades, tradeIdx, whales, returned, outcomes>>

\* if (userError || !user)
UserRejected(outcome) == outcome # "user"

\* lines 36-47: the result of getUser, the query of api_keys
AfterGetUser ==
    /\ UNCHANGED notWhale
    /\ pc = "getUser"
    /\ Awaited(GetUserCall)
    /\ returned' = Consume(GetUserCall)
    /\ IF UserRejected(OutcomeOf(GetUserCall))
       THEN Throw("Unauthorized") /\ user' = user
       ELSE /\ user' = "u1"
            /\ pc' = "apiKeys"
            /\ Issue(ApiKeysCall)
            /\ UNCHANGED <<response, usdtPairs, pairIdx, whaleTrades, tradeIdx, whales>>
    /\ UNCHANGED <<req, exchange, apiKeys, outcomes>>

\* mutant of KeysMissing: the result of the api_keys query is not looked at
KeysMissingIgnored(outcome) == FALSE

\* if (apiKeysError || !apiKeys)
KeysMissing(outcome) == outcome # "row"

\* lines 49-56: the result of the api_keys query, the request of exchangeInfo
AfterApiKeys ==
    /\ UNCHANGED notWhale
    /\ pc = "apiKeys"
    /\ Awaited(ApiKeysCall)
    /\ returned' = Consume(ApiKeysCall)
    /\ IF KeysMissing(OutcomeOf(ApiKeysCall))
       THEN Throw("API keys not found") /\ apiKeys' = apiKeys
       ELSE /\ apiKeys' = "keys"
            /\ pc' = "exchangeInfo"
            /\ Issue(ExchangeInfoCall)
            /\ UNCHANGED <<response, usdtPairs, pairIdx, whaleTrades, tradeIdx, whales>>
    /\ UNCHANGED <<req, exchange, user, outcomes>>

\* lines 57-68: exchangeData, usdtPairs, the first pass through the loop head
AfterExchangeInfo ==
    /\ UNCHANGED notWhale
    /\ pc = "exchangeInfo"
    /\ Awaited(ExchangeInfoCall)
    /\ returned' = Consume(ExchangeInfoCall)
    /\ LET o == OutcomeOf(ExchangeInfoCall)
           pairs == Slice(UsdtPairs(exchange))
       IN  IF o = "throw"
           THEN Throw("fetch failed")
           ELSE IF o = "nosymbols"
           THEN Throw("Cannot read properties of undefined")
           ELSE /\ usdtPairs' = pairs
                /\ StartPair(pairs, 1, <<>>)
    /\ UNCHANGED <<req, exchange, user, apiKeys, outcomes>>

\* mutant of SkipPair: a failed pair ends the invocation in the outer catch
SkipPairAborts == Throw("fetch failed")

\* lines 79-82 and 115-117: `continue`, or the catch block of the loop body
SkipPair == StartPair(usdtPairs, pairIdx + 1, whales)

\* lines 87-90 on the trades of each symbol: tradeData.filter(...)
WhaleTradesOf == [s \in 1..NumSymbols |-> WhaleFilter(TradesOf(s))]

\* lines 79-93 and 114-117: the result of the trades request of a pair
AfterTrades ==
    /\ UNCHANGED notWhale
    /\ pc = "trades"
    /\ LET symbol == usdtPairs[pairIdx]
           call == TradesCall(symbol)
           wt == WhaleTradesOf[symbol]
       IN  /\ Awaited(call)
           /\ returned' = Consume(call)
           /\ IF OutcomeOf(call) \in FailedTrades
              THEN SkipPair
              ELSE IF wt = <<>>
              THEN StartPair(usdtPairs, pairIdx + 1, whales \o wt)
              ELSE IssueUpsert(wt, 1)
    /\ UNCHANGED <<req, exchange, user, apiKeys, usdtPairs, outcomes>>

\* mutant of AwaitUpsert: the upsert is not awaited
AwaitUpsertNot(call) == TRUE

\* `await` of the upsert, line 96
AwaitUpsert(call) == Awaited(call)

\* mutant of AfterUpsert: an upsert error is thrown, and the catch block of
\* the loop body goes on with the next pair
AfterUpsertThrows ==
    /\ UNCHANGED notWhale
    /\ pc = "upsert"
    /\ LET call == UpsertCall(usdtPairs[pairIdx], whaleTrades[tradeIdx])
       IN  /\ AwaitUpsert(call)
           /\ returned' = Consume(call)
           /\ IF OutcomeOf(call) = "error"
              THEN SkipPair
              ELSE IF tradeIdx < Len(whaleTrades)
              THEN IssueUpsert(whaleTrades, tradeIdx + 1)
              ELSE StartPair(usdtPairs, pairIdx + 1, whales \o whaleTrades)
    /\ UNCHANGED <<req, exchange, user, apiKeys, usdtPairs, outcomes>>

\* lines 93-114: the result of an upsert, the next whale trade or the next pair
AfterUpsert ==
    /\ UNCHANGED notWhale
    /\ pc = "upsert"
    /\ LET call == UpsertCall(usdtPairs[pairIdx], whaleTrades[tradeIdx])
       IN  /\ AwaitUpsert(call)
           /\ returned' = Consume(call)
           /\ IF tradeIdx < Len(whaleTrades)
              THEN IssueUpsert(whaleTrades, tradeIdx + 1)
              ELSE StartPair(usdtPairs, pairIdx + 1, whales \o whaleTrades)
    /\ UNCHANGED <<req, exchange, user, apiKeys, usdtPairs, outcomes>>

(***************************************************************************)
(* CoinSentimentView.  A nullable value is a sequence of length 0 or 1.    *)
(***************************************************************************)
Indicators == {"buy", "sell", "neutral"}

\* video.comments of at most n comments
CommentSeqs(n) == UNION {[1..k -> [indicator : Indicators]] : k \in 0..n}

\* Object.values(sentimentData.videos), in the order of the response: at
\* most n videos with at most c comments between them
RECURSIVE VideosUpTo(_, _)
VideosUpTo(n, c) ==
    IF n = 0 THEN {<<>>}
    ELSE {<<>>} \cup
         UNION {{<<[comments |-> cs]>> \o rest : rest \in VideosUpTo(n - 1, c - Len(cs))} :
                   cs \in CommentSeqs(c)}

VideoSeqs == VideosUpTo(MaxVideos, MaxComments)

\* what the sentiment endpoint holds: videos, or a body without videos
Served == {<<vs>> : vs \in VideoSeqs} \cup {<<>>}

\* the body the sentiment endpoint answers a request for a coin with
SentimentBody(coin) == [coin |-> coin, videos |-> served]

\* the coin lists the search endpoint answers with
CoinLists == {<<>>, <<"BTC", "ETH">>}

Counts(buy, sell, others, total) ==
    [buy |-> buy, sell |-> sell, others |-> others, total |-> total]

\* mutant of CountComment: a 'sell' comment is counted with the others
CountCommentNoSell(acc, comment) ==
    IF comment.indicator = "buy" THEN [acc EXCEPT !.buy = @ + 1]
    ELSE [acc EXCEPT !.others = @ + 1]

\* the body of the inner forEach: buy++, sell++ or others++
CountComment(acc, comment) ==
    IF comment.indicator = "buy" THEN [acc EXCEPT !.buy = @ + 1]
    ELSE IF comment.indicator = "sell" THEN [acc EXCEPT !.sell = @ + 1]
    ELSE [acc EXCEPT !.others = @ + 1]

\* video.comments.forEach
RECURSIVE ForEachComment(_, _, _)
ForEachComment(acc, comments, i) ==
    IF i > Len(comments) THEN acc
    ELSE ForEachComment(CountComment(acc, comments[i]), comments, i + 1)

\* Object.values(sentimentData.videos).forEach
RECURSIVE ForEachVideo(_, _, _)
ForEachVideo(acc, videos, i) ==
    IF i > Len(videos) THEN acc
    ELSE ForEachVideo(ForEachComment(acc, videos[i].comments, 1), videos, i + 1)

calculateSentiments(data) ==
    IF data = <<>> \/ data[1].videos = <<>> THEN Counts(0, 0, 0, 0)
    ELSE LET acc == ForEachVideo(Counts(0, 0, 0, 0), data[1].videos[1], 1)
         IN  Counts(acc.buy, acc.sell, acc.others, acc.buy + acc.sell + acc.others)

\* the effect on selectedCoin (lines 61-90), up to its fetch: loading is
\* set, the previous data cleared, the request issued
StartSentimentFetch(coin) ==
    /\ loading' = TRUE
    /\ sentimentData' = <<>>
    /\ sentimentFetches' = sentimentFetches \cup {[id |-> fetchCount + 1, coin |-> coin]}
    /\ fetchCount' = fetchCount + 1
    /\ stats' = calculateSentiments(<<>>)

\* lines 29-58: the coin search returns
FetchCoinsReturns ==
    /\ UNCHANGED notSentiment
    /\ loadingCoins
    /\ loadingCoins' = FALSE
    /\ served' = served
    /\ \/ \E list \in CoinLists :
             /\ availableCoins' = list
             /\ IF Len(list) > 0
                THEN selectedCoin' = list[1] /\ StartSentimentFetch(list[1])
                ELSE UNCHANGED <<selectedCoin, loading, sentimentData, sentimentFetches,
                                 fetchCount, stats>>
             /\ UNCHANGED sentimentToasts
       \/ /\ sentimentToasts' = sentimentToasts + 1
          /\ UNCHANGED <<availableCoins, selectedCoin, loading, sentimentData,
                         sentimentFetches, fetchCount, stats>>

\* line 124: onValueChange={setSelectedCoin}, then the effect on selectedCoin
SelectCoin ==
    /\ UNCHANGED notSentiment
    /\ ~loadingCoins
    /\ fetchCount < MaxSelections
    /\ \E i \in 1..Len(availableCoins) :
          /\ availableCoins[i] # selectedCoin
          /\ selectedCoin' = availableCoins[i]
          /\ StartSentimentFetch(availableCoins[i])
    /\ UNCHANGED <<served, availableCoins, loadingCoins, sentimentToasts>>

\* lines 69-84: a sentiment request returns
SentimentReturns ==
    \E f \in sentimentFetches :
        /\ UNCHANGED notSentiment
        /\ sentimentFetches' = sentimentFetches \ {f}
        /\ loading' = FALSE
        /\ \/ /\ sentimentData' = <<SentimentBody(f.coin)>>
              /\ stats' = calculateSentiments(<<SentimentBody(f.coin)>>)
              /\ UNCHANGED sentimentToasts
           \/ /\ sentimentToasts' = sentimentToasts + 1
              /\ UNCHANGED <<sentimentData, stats>>
        /\ UNCHANGED <<served, availableCoins, loadingCoins, selectedCoin, fetchCount>>

(***************************************************************************)
(* TradingSuggestions.  A handler is an entry of handlers from its first   *)
(* await to its return; it holds what its closure captured at the click.   *)
(* One step of a handler is: the awaited backend call takes effect and     *)
(* returns, and the handler runs to its next await or to its end.          *)
(***************************************************************************)
Users == {"u1", "u2"}
Names == {"a", "b"}
CoinSymbols == <<"BTC", "ETH", "SOL", "ADA", "XRP">>

\* what useCoinData resolves to: no coin, one coin, several coins
CoinLoads == {SubSeq(CoinSymbols, 1, n) : n \in {0, 1, 2, NumCoins}}

View(id, name, user_id) == [id |-> id, name |-> name, user_id |-> user_id]

\* rows of trade_views left by earlier runs
EarlierViews == {{}, {View(1, "a", "u1")}}

\* the schema's uniqueness of names: a second row of the same user with the
\* same name is rejected
Duplicate(user_id, name) ==
    \E row \in trade_views : row.user_id = user_id /\ row.name = name

Handler(hid, kind, at, name, user_id, viewId, index) ==
    [hid |-> hid, kind |-> kind, at |-> at, name |-> name, user |-> user_id,
     viewId |-> viewId, index |-> index]

Step(kind, outcome, toast, message) ==
    [kind |-> kind, outcome |-> outcome, toast |-> toast, message |-> message]

\* the smallest handler id not in use
FreeId == CHOOSE i \in 1..(Cardinality(handlers) + 1) :
              /\ \A h \in handlers : h.hid # i
              /\ \A j \in 1..(i - 1) : \E h \in handlers : h.hid = j

\* toast({ variant: "destructive" }) and toast({}) of a handler's step
Destructive(kind, outcome, message) == Step(kind, outcome, "destructive", message)
Plain(kind, outcome, message) == Step(kind, outcome, "default", message)
Silent(kind, outcome) == Step(kind, outcome, "none", "")

\* const currentCoin = coins[tradeView.currentIndex], of a render with index i
CoinAt(i) == IF i + 1 <= Len(coins) THEN <<coins[i + 1]>> ELSE <<>>

\* the session ends: the user signs out, or the session expires
SessionEnds ==
    /\ UNCHANGED notTS
    /\ session # Null
    /\ session' = Null
    /\ UNCHANGED <<trade_views, insertRequests, started,
                   isTradeNameDialogOpen, tradeView, coins, handlers, invocations,
                   lastStep>>

\* lines 28-30
handleStart ==
    /\ UNCHANGED notTS
    /\ ~started
    /\ ~isTradeNameDialogOpen
    /\ isTradeNameDialogOpen' = TRUE
    /\ UNCHANGED <<session, trade_views, insertRequests, started,
                   tradeView, coins, handlers, invocations, lastStep>>

\* lines 32-34: the dialog submits a name; getSession is awaited
handleCreateTradeView ==
    /\ UNCHANGED notTS
    /\ ~started
    /\ isTradeNameDialogOpen
    /\ invocations < MaxInvocations
    /\ \E name \in Names :
          handlers' = handlers \cup
              {Handler(FreeId, "create", "getSession", name, Null, 0, 0)}
    /\ invocations' = invocations + 1
    /\ UNCHANGED <<session, trade_views, insertRequests, started,
                   isTradeNameDialogOpen, tradeView, coins, lastStep>>

Without(h) == handlers \ {h}

\* lines 34-52: getSession returns; the check for an existing view is issued
CreateAfterSession ==
    /\ UNCHANGED notTS
    /\ \E h \in handlers :
          /\ h.kind = "create" /\ h.at = "getSession"
          /\ \E o \in {"ok", "error"} :
                IF o = "error"
                THEN /\ handlers' = Without(h)
                     /\ lastStep' = Destructive("getSession", o, "error.message")
                ELSE IF session = Null
                THEN /\ handlers' = Without(h)
                     /\ lastStep' = Destructive("getSession", "none", "Please sign in")
                ELSE /\ handlers' = Without(h) \cup
                            {[h EXCEPT !.at = "check", !.user = session]}
                     /\ lastStep' = Silent("getSession", o)
    /\ UNCHANGED <<session, trade_views, insertRequests, started,
                   isTradeNameDialogOpen, tradeView, coins, invocations>>

\* mutant of existingView: the check finds nothing
existingViewNone(user_id, name) == FALSE

\* lines 47-52: .select().eq('user_id').eq('name').maybeSingle()
existingView(user_id, name) ==
    \E row \in trade_views : row.user_id = user_id /\ row.name = name

\* lines 54-75: the check returns; the insert into trade_views is issued
CreateAfterCheck ==
    /\ UNCHANGED notTS
    /\ \E h \in handlers :
          /\ h.kind = "create" /\ h.at = "check"
          /\ \E o \in {"ok", "error"} :
                IF o = "error"
                THEN /\ handlers' = Without(h)
                     /\ lastStep' = Destructive("check", o, "error.message")
                ELSE IF existingView(h.user, h.name)
                THEN /\ handlers' = Without(h)
                     /\ lastStep' = Destructive("check",
                                        IF Duplicate(h.user, h.name) THEN "found" ELSE "free",
                                        "already exists")
                ELSE /\ handlers' = Without(h) \cup {[h EXCEPT !.at = "insert"]}
                     /\ lastStep' = Silent("check",
                                        IF Duplicate(h.user, h.name) THEN "found" ELSE "free")
    /\ UNCHANGED <<session, trade_views, insertRequests, started,
                   isTradeNameDialogOpen, tradeView, coins, invocations>>

\* mutant of InsertFailed: the result of the insert is not checked
InsertFailedUnchecked(outcome) == FALSE

\* lines 77-81: if (insertError) throw insertError; if (!data) throw ...
InsertFailed(outcome) == outcome # "ok"

\* id of the row an insert into trade_views creates
NewId == Cardinality(trade_views) + 1

\* lines 65-103: the insert returns; on success the analysis starts
CreateAfterInsert ==
    /\ UNCHANGED notTS
    /\ \E h \in handlers :
          /\ h.kind = "create" /\ h.at = "insert"
          /\ handlers' = Without(h)
          /\ \E o \in IF Duplicate(h.user, h.name) THEN {"duplicate"} ELSE {"ok", "error"} :
                /\ trade_views' = IF o = "ok"
                                  THEN trade_views \cup {View(NewId, h.name, h.user)}
                                  ELSE trade_views
                /\ IF InsertFailed(o)
                   THEN /\ lastStep' = Destructive("insert", o, "error.message")
                        /\ UNCHANGED <<tradeView, started, isTradeNameDialogOpen>>
                   ELSE /\ tradeView' = [id |-> IF o = "ok" THEN NewId ELSE 0,
                                         currentIndex |-> 0]
                        /\ started' = TRUE
                        /\ isTradeNameDialogOpen' = FALSE
                        /\ lastStep' = Plain("insert", o, "Analysis Started")
    /\ UNCHANGED <<session, insertRequests, coins, invocations>>

\* mutant of Indicator: the payload of handleBuy is used by handleNext too
IndicatorAlwaysBuy(viewId, coin, user_response) ==
    [trade_view_id |-> viewId, coin_symbol |-> coin, user_response |-> "buy"]

\* the coin_indicators insert of handleNext (lines 110-119) and of handleBuy
\* (lines 146-156) as it is issued
Indicator(viewId, coin, user_response) ==
    [trade_view_id |-> viewId, coin_symbol |-> coin, user_response |-> user_response]

\* CoinAnalysisCard is on screen: started, coins loaded, a current coin
CardShown == started /\ CoinAt(tradeView.currentIndex) # <<>>

\* lines 106-119: Next is clicked; the insert is awaited
handleNext ==
    /\ UNCHANGED notTS
    /\ CardShown
    /\ tradeView.id # 0
    /\ invocations < MaxInvocations
    /\ handlers' = handlers \cup
          {Handler(FreeId, "next", "insert", "", Null, tradeView.id,
                   tradeView.currentIndex)}
    /\ insertRequests' = Append(insertRequests,
          Indicator(tradeView.id, CoinAt(tradeView.currentIndex)[1], ""))
    /\ invocations' = invocations + 1
    /\ UNCHANGED <<session, trade_views, started,
                   isTradeNameDialogOpen, tradeView, coins, lastStep>>

\* what an insert into coin_indicators comes back with: a result without
\* error, a result with an error, or a rejected promise
InsertOutcomes == {"ok", "error", "throw"}

\* lines 110-139: the insert of handleNext returns
NextAfterInsert ==
    /\ UNCHANGED notTS
    /\ \E h \in handlers :
          /\ h.kind = "next"
          /\ handlers' = Without(h)
          /\ \E o \in InsertOutcomes :
                /\ IF o = "throw"
                   THEN /\ lastStep' = Destructive("next", o, "Failed to save analysis")
                        /\ tradeView' = tradeView
                   ELSE IF h.index < Len(coins) - 1
                   THEN /\ tradeView' = [tradeView EXCEPT !.currentIndex = @ + 1]
                        /\ lastStep' = Silent("next", o)
                   ELSE /\ tradeView' = tradeView
                        /\ lastStep' = Plain("next", o, "Analysis Complete")
    /\ UNCHANGED <<session, trade_views, insertRequests, started,
                   isTradeNameDialogOpen, coins, invocations>>

\* lines 142-156: Buy is clicked; the insert is awaited
handleBuy ==
    /\ UNCHANGED notTS
    /\ CardShown
    /\ tradeView.id # 0
    /\ invocations < MaxInvocations
    /\ handlers' = handlers \cup
          {Handler(FreeId, "buy", "insert", "", Null, tradeView.id,
                   tradeView.currentIndex)}
    /\ insertRequests' = Append(insertRequests,
          Indicator(tradeView.id, CoinAt(tradeView.currentIndex)[1], "buy"))
    /\ invocations' = invocations + 1
    /\ UNCHANGED <<session, trade_views, started,
                   isTradeNameDialogOpen, tradeView, coins, lastStep>>

\* lines 146-171: the insert of handleBuy returns; handleNext of the same
\* render is called (line 163) and runs to its await
BuyAfterInsert ==
    /\ UNCHANGED notTS
    /\ \E h \in handlers :
          /\ h.kind = "buy"
          /\ \E o \in InsertOutcomes :
                /\ IF o = "throw"
                   THEN /\ lastStep' = Destructive("buy", o, "Failed to record trade")
                        /\ handlers' = Without(h)
                        /\ insertRequests' = insertRequests
                   ELSE /\ lastStep' = Plain("buy", o, "Trade Recorded")
                        /\ handlers' = Without(h) \cup {[h EXCEPT !.kind = "next"]}
                        /\ insertRequests' = Append(insertRequests,
                              Indicator(h.viewId, CoinAt(h.index)[1], ""))
    /\ UNCHANGED <<session, trade_views, started, isTradeNameDialogOpen, tradeView,
                   coins, invocations>>

(***************************************************************************)
(* CoinVolatileView (src/unnamed/part_001).  The volatile-coins query, the *)
(* realtime subscription on volatile_trades and handleTradeClick.  A       *)
(* handleTradeClick call is an entry of tradeClicks from its first await   *)
(* to its return.                                                          *)
(***************************************************************************)
\* what fetch-binance-pairs answers with: no pair, or some pairs
VolatileLoads == {<<>>, <<"BTCUSDT", "ETHUSDT">>}

\* a JavaScript array, and the object useQuery returns
ArrayValue(items) == [type |-> "array", items |-> items]
QueryResult(items) == [type |-> "queryResult", items |-> items]

\* value.name: the query result has a method refetch, an array has none
Member(value, name) ==
    IF value.type = "queryResult" /\ name = "refetch" THEN "function" ELSE "undefined"

\* line 31: const { data: coins = [] } = useQuery(...), of the first render;
\* the effect of lines 67-84 has no dependencies and keeps this binding
coinsOfFirstRender == ArrayValue(<<>>)

\* a row of volatile_trades (lines 100-108)
VolatileTrade(id, user_id, symbol) == [id |-> id, user_id |-> user_id, symbol |-> symbol]

TradeClick(hid, at, user_id, symbol) ==
    [hid |-> hid, at |-> at, user |-> user_id, symbol |-> symbol]

\* the smallest handleTradeClick id not in use
FreeClickId == CHOOSE i \in 1..(Cardinality(tradeClicks) + 1) :
                  /\ \A h \in tradeClicks : h.hid # i
                  /\ \A j \in 1..(i - 1) : \E h \in tradeClicks : h.hid = j

\* the session ends: the user signs out, or the session expires
VSessionEnds ==
    /\ UNCHANGED notVolatile
    /\ vSession # Null
    /\ vSession' = Null
    /\ UNCHANGED <<volatile_trades, undelivered, mounted, subscribed, queryAt,
                   queryStatus, volatileCoins, changeEvents,
                   callbackErrors, tradeClicks, clickCount, tradeInserts, location,
                   vLastStep>>

\* lines 33-35: a run of the queryFn starts (here: on refetchInterval)
StartQuery ==
    queryAt' = "getSession"

\* line 54: refetchInterval: 30000
RefetchInterval ==
    /\ UNCHANGED notVolatile
    /\ mounted
    /\ queryAt = "idle"
    /\ StartQuery
    /\ UNCHANGED <<vSession, volatile_trades, undelivered, mounted, subscribed,
                   queryStatus, volatileCoins, changeEvents, callbackErrors,
                   tradeClicks, clickCount, tradeInserts, location, vLastStep>>

\* lines 35-45: getSession returns; without a session the queryFn throws
QueryAfterSession ==
    /\ UNCHANGED notVolatile
    /\ queryAt = "getSession"
    /\ IF vSession = Null
       THEN queryAt' = "idle" /\ queryStatus' = "error"
       ELSE queryAt' = "invoke" /\ queryStatus' = queryStatus
    /\ UNCHANGED <<vSession, volatile_trades, undelivered, mounted, subscribed,
                   volatileCoins, changeEvents, callbackErrors,
                   tradeClicks, clickCount, tradeInserts, location, vLastStep>>

\* lines 41-52: fetch-binance-pairs returns
QueryAfterInvoke ==
    /\ UNCHANGED notVolatile
    /\ queryAt = "invoke"
    /\ queryAt' = "idle"
    /\ \/ \E list \in VolatileLoads :
             /\ volatileCoins' = list
             /\ queryStatus' = "success"
       \/ /\ queryStatus' = "error"
          /\ volatileCoins' = volatileCoins
    /\ UNCHANGED <<vSession, volatile_trades, undelivered, mounted, subscribed,
                   changeEvents, callbackErrors, tradeClicks,
                   clickCount, tradeInserts, location, vLastStep>>

\* another client changes a row of volatile_trades
OtherChange ==
    /\ UNCHANGED notVolatile
    /\ undelivered + changeEvents < MaxChanges + Cardinality(volatile_trades)
    /\ undelivered' = undelivered + 1
    /\ UNCHANGED <<vSession, volatile_trades, mounted, subscribed, queryAt,
                   queryStatus, volatileCoins, changeEvents,
                   callbackErrors, tradeClicks, clickCount, tradeInserts, location,
                   vLastStep>>

\* lines 73-77: the subscription delivers a change event; the callback
\* evaluates coins.refetch(), which throws a TypeError unless coins has a
\* method refetch
ChangeEvent ==
    /\ UNCHANGED notVolatile
    /\ subscribed
    /\ undelivered > 0
    /\ undelivered' = undelivered - 1
    /\ changeEvents' = changeEvents + 1
    /\ IF Member(coinsOfFirstRender, "refetch") = "function"
       THEN /\ IF queryAt = "idle" THEN StartQuery ELSE queryAt' = queryAt
            /\ callbackErrors' = callbackErrors
       ELSE /\ callbackErrors' = callbackErrors + 1
            /\ queryAt' = queryAt
    /\ UNCHANGED <<vSession, volatile_trades, mounted, subscribed, queryStatus,
                   volatileCoins, tradeClicks, clickCount, tradeInserts, location,
                   vLastStep>>

\* lines 81-83: the component unmounts; the cleanup removes the channel
VolatileUnmount ==
    /\ UNCHANGED notVolatile
    /\ mounted
    /\ mounted' = FALSE
    /\ subscribed' = FALSE
    /\ UNCHANGED <<vSession, volatile_trades, undelivered, queryAt, queryStatus,
                   volatileCoins, changeEvents, callbackErrors,
                   tradeClicks, clickCount, tradeInserts, location, vLastStep>>

\* lines 86-88: a coin card is clicked; getSession is awaited
handleTradeClick ==
    /\ UNCHANGED notVolatile
    /\ mounted
    /\ queryStatus = "success"
    /\ clickCount < MaxClicks
    /\ \E i \in 1..Len(volatileCoins) :
          tradeClicks' = tradeClicks \cup
              {TradeClick(FreeClickId, "getSession", Null, volatileCoins[i])}
    /\ clickCount' = clickCount + 1
    /\ UNCHANGED <<vSession, volatile_trades, undelivered, mounted, subscribed,
                   queryAt, queryStatus, volatileCoins, changeEvents,
                   callbackErrors, tradeInserts, location, vLastStep>>

\* mutant of NoSession: the session is not checked
NoSessionIgnored(s) == FALSE

\* line 89: if (!session)
NoSession(s) == s = Null

\* lines 88-110: getSession returns; with a session the insert is issued
TradeAfterSession ==
    /\ UNCHANGED notVolatile
    /\ \E h \in tradeClicks :
          /\ h.at = "getSession"
          /\ IF NoSession(vSession)
             THEN /\ tradeClicks' = tradeClicks \ {h}
                  /\ vLastStep' = Destructive("getSession", "none", "Please sign in to trade")
                  /\ tradeInserts' = tradeInserts
             ELSE /\ tradeClicks' = (tradeClicks \ {h}) \cup
                         {[h EXCEPT !.at = "insert", !.user = vSession]}
                  /\ vLastStep' = Silent("getSession", "ok")
                  /\ tradeInserts' = Append(tradeInserts,
                         [user_id |-> vSession, symbol |-> h.symbol])
    /\ UNCHANGED <<vSession, volatile_trades, undelivered, mounted, subscribed,
                   queryAt, queryStatus, volatileCoins, changeEvents,
                   callbackErrors, clickCount, location>>

\* id of the row an insert into volatile_trades creates
NewTradeId == Cardinality(volatile_trades) + 1

\* lines 98-135: the insert returns (a row, an error, or a rejected promise);
\* on success the router navigates to the row
TradeAfterInsert ==
    /\ UNCHANGED notVolatile
    /\ \E h \in tradeClicks :
          /\ h.at = "insert"
          /\ tradeClicks' = tradeClicks \ {h}
          /\ \E o \in {"ok", "error", "throw"} :
                IF o = "ok"
                THEN /\ volatile_trades' = volatile_trades \cup
                            {VolatileTrade(NewTradeId, h.user, h.symbol)}
                     /\ undelivered' = undelivered + 1
                     /\ vLastStep' = Plain("insert", o, "Trade created successfully")
                     /\ location' = NewTradeId
                ELSE /\ vLastStep' = Destructive("insert", o,
                            IF o = "error" THEN "Failed to create trade"
                            ELSE "Failed to process trade")
                     /\ UNCHANGED <<volatile_trades, undelivered, location>>
    /\ UNCHANGED <<vSession, mounted, subscribed, queryAt, queryStatus,
                   volatileCoins, changeEvents, callbackErrors,
                   clickCount, tradeInserts>>

\* the component is not mounted
VolatileIdle ==
    /\ vSession = Null
    /\ volatile_trades = {}
    /\ undelivered = 0
    /\ mounted = FALSE
    /\ subscribed = FALSE
    /\ queryAt = "idle"
    /\ queryStatus = "pending"
    /\ volatileCoins = <<>>
    /\ changeEvents = 0
    /\ callbackErrors = 0
    /\ tradeClicks = {}
    /\ clickCount = 0
    /\ tradeInserts = <<>>
    /\ location = 0
    /\ vLastStep = Silent("none", "none")

(***************************************************************************)
(* processTradesData of CombinedPerformanceChart (src/unnamed/part_002,    *)
(* lines 35-89).  A timestamp is a number of hours, a calendar date the    *)
(* number of its day; amounts are held in thousandths.  A nullable field   *)
(* is <<>> for null and <<v>> for the value v.                             *)
(***************************************************************************)
\* trades of one call
MaxTrades == 3

HoursPerDay == 24
\* thousandths in one hundredth: toFixed(2) keeps hundredths
Thousandths == 10

\* a row of prediction_trades
PredictionTrade(id, view_id, created_at, profit_loss, status) ==
    [id |-> id, view_id |-> view_id, created_at |-> created_at,
     profit_loss |-> profit_loss, status |-> status]

\* profit_loss values: a number n is [type |-> "number", v |-> n]; Text is
\* a value Number() turns into NaN
Num(n) == [type |-> "number", v |-> n]
Text == [type |-> "string", v |-> 0]
NotANumber == [type |-> "NaN", v |-> 0]

\* the rows the model draws trades from: two of one day, a fraction of a
\* cent, a row without created_at, one without profit_loss, one that fails
\* the filter, one whose profit_loss is not numeric
TradeRows ==
    {PredictionTrade(1, "v1", <<10>>, <<Num(1000)>>, "closed"),
     PredictionTrade(2, "v1", <<12>>, <<Num(0 - 500)>>, "closed"),
     PredictionTrade(3, "v1", <<30>>, <<Num(1004)>>, "closed"),
     PredictionTrade(4, "v2", <<>>, <<Num(2000)>>, "closed"),
     PredictionTrade(5, "v2", <<50>>, <<>>, "closed"),
     PredictionTrade(6, "v2", <<40>>, <<Num(3000)>>, "open"),
     PredictionTrade(7, "v1", <<60>>, <<Text>>, "closed")}

\* sequences of at most n distinct rows
RECURSIVE TradeListsUpTo(_)
TradeListsUpTo(n) ==
    IF n = 0 THEN {<<>>}
    ELSE LET shorter == TradeListsUpTo(n - 1)
             longest == {s \in shorter : Len(s) = n - 1}
         IN  shorter \cup
             {Append(p[1], p[2]) :
                 p \in {q \in longest \X TradeRows :
                           \A i \in 1..Len(q[1]) : q[1][i] # q[2]}}

TradeLists == TradeListsUpTo(MaxTrades)

\* the filter prop: not given, or a test of the trade's status
Filters == {"none", "closed"}

\* filter(trade), line 50
Passes(filter, trade) == filter = "none" \/ trade.status = filter

\* new Date(created_at || '').getTime(): a number of hours, or NaN
GetTime(created_at) == IF created_at = <<>> THEN NotANumber ELSE Num(created_at[1])

\* the comparator of line 44-46; a NaN result counts as +0 (Array.prototype.sort)
Compare(a, b) ==
    LET ta == GetTime(a.created_at)
        tb == GetTime(b.created_at)
    IN  IF ta.type = "NaN" \/ tb.type = "NaN" THEN 0 ELSE ta.v - tb.v

\* the comparator is a consistent comparator for the elements of s: equality
\* and order under it are transitive
ConsistentComparator(s) ==
    \A i, j, k \in 1..Len(s) :
        /\ (Compare(s[i], s[j]) = 0 /\ Compare(s[j], s[k]) = 0) => Compare(s[i], s[k]) = 0
        /\ (Compare(s[i], s[j]) = 0 /\ Compare(s[j], s[k]) < 0) => Compare(s[i], s[k]) < 0
        /\ (Compare(s[i], s[j]) < 0 /\ Compare(s[j], s[k]) = 0) => Compare(s[i], s[k]) < 0
        /\ (Compare(s[i], s[j]) < 0 /\ Compare(s[j], s[k]) < 0) => Compare(s[i], s[k]) < 0

\* the rearrangements of s
Rearrangements(s) ==
    {[i \in 1..Len(s) |-> s[p[i]]] :
        p \in {q \in [1..Len(s) -> 1..Len(s)] : \A i, j \in 1..Len(s) : i # j => q[i] # q[j]}}

\* the stable ascending order of s under the comparator
StableSorts(s) ==
    {[i \in 1..Len(s) |-> s[p[i]]] :
        p \in {q \in [1..Len(s) -> 1..Len(s)] :
                  /\ \A i, j \in 1..Len(s) : i # j => q[i] # q[j]
                  /\ \A i, j \in 1..Len(s) :
                        i < j => \/ Compare(s[q[i]], s[q[j]]) < 0
                                 \/ Compare(s[q[i]], s[q[j]]) = 0 /\ q[i] < q[j]}}

\* trades.sort(comparator), lines 44-46: the stable order when the
\* comparator is consistent; else the order is implementation-defined
\* (ECMAScript, Array.prototype.sort) and may be any rearrangement
SortResults(s) ==
    IF ConsistentComparator(s) THEN StableSorts(s) ELSE Rearrangements(s)

\* sortedTrades.filter(filter), line 50
RECURSIVE FilterTrades(_, _, _)
FilterTrades(s, filter, i) ==
    IF i > Len(s) THEN <<>>
    ELSE (IF Passes(filter, s[i]) THEN <<s[i]>> ELSE <<>>) \o FilterTrades(s, filter, i + 1)

\* new Date(created_at).toLocaleDateString(): the calendar date
toLocaleDateString(t) == t \div HoursPerDay

\* Number(profit_loss)
Number(value) == IF value.type = "number" THEN value ELSE NotANumber

\* groupedData[date] = cumulative: an object keeps its keys in the order of
\* their first assignment
SetKey(grouped, date, value) ==
    IF \E k \in 1..Len(grouped) : grouped[k].date = date
    THEN [k \in 1..Len(grouped) |->
             IF grouped[k].date = date THEN [date |-> date, value |-> value]
             ELSE grouped[k]]
    ELSE Append(grouped, [date |-> date, value |-> value])

\* the body of filteredTrades.forEach, lines 62-79
Accumulate(acc, trade) ==
    IF trade.created_at = <<>> \/ trade.profit_loss = <<>> THEN acc
    ELSE LET date == toLocaleDateString(trade.created_at[1])
             profitLoss == Number(trade.profit_loss[1])
         IN  IF profitLoss.type = "NaN" THEN acc
             ELSE [cumulative |-> acc.cumulative + profitLoss.v,
                   groupedData |-> SetKey(acc.groupedData, date,
                                          acc.cumulative + profitLoss.v)]

RECURSIVE ForEachTrade(_, _, _)
ForEachTrade(acc, s, i) ==
    IF i > Len(s) THEN acc ELSE ForEachTrade(Accumulate(acc, s[i]), s, i + 1)

\* Number(value.toFixed(2)): the nearest hundredth (the modelled amounts
\* never fall halfway between two hundredths)
toFixed2(v) ==
    IF v % Thousandths >= 5 THEN v - (v % Thousandths) + Thousandths
    ELSE v - (v % Thousandths)

\* lines 49-88, on the sorted array
ChartOf(sorted, filter) ==
    LET filteredTrades == FilterTrades(sorted, filter, 1)
    IN  IF Len(filteredTrades) = 0 THEN <<>>
        ELSE LET acc == ForEachTrade([cumulative |-> 0, groupedData |-> <<>>],
                                     filteredTrades, 1)
             IN  [k \in 1..Len(acc.groupedData) |->
                     [date |-> acc.groupedData[k].date,
                      value |-> toFixed2(acc.groupedData[k].value)]]

\* lines 38-46: an empty array is returned for at once; else it is sorted
SortTrades ==
    /\ UNCHANGED notProcess
    /\ pPc = "start"
    /\ IF Len(pTrades) = 0
       THEN /\ pPc' = "done"
            /\ chartResult' = <<>>
            /\ sortedTrades' = sortedTrades
       ELSE /\ pPc' = "sorted"
            /\ sortedTrades' \in SortResults(pTrades)
            /\ chartResult' = chartResult
    /\ UNCHANGED <<pTrades, pFilter>>

\* lines 49-88
BuildChart ==
    /\ UNCHANGED notProcess
    /\ pPc = "sorted"
    /\ pPc' = "done"
    /\ chartResult' = ChartOf(sortedTrades, pFilter)
    /\ UNCHANGED <<pTrades, pFilter, sortedTrades>>

\* processTradesData is not running
ProcessIdle ==
    /\ pTrades = <<>>
    /\ pFilter = "none"
    /\ sortedTrades = <<>>
    /\ chartResult = <<>>
    /\ pPc = "idle"

(***************************************************************************)
(* CombinedPerformanceChart (src/unnamed/part_002, lines 91-154): the      *)
(* effect that fetches the trades and subscribes to prediction_trades.     *)
(* A fetchData call is an entry of chartFetches from its await to its      *)
(* return; it holds the viewId and the filter of the render whose effect    *)
(* created it.                                                             *)
(***************************************************************************)
\* change events of prediction_trades in one run of the component
MaxChartEvents == 1
\* runs of the effect in one run of the component
MaxEffectRuns == 2

ViewIds == {Null, "v1", "v2"}

\* the rows of prediction_trades, in the order the backend returns them
StoredTrades ==
    LET Row(id) == CHOOSE r \in TradeRows : r.id = id
    IN  <<Row(3), Row(6), Row(1)>>

\* lines 95-104: select('*'), with .eq('view_id', viewId) when viewId is set
RECURSIVE SelectTrades(_, _, _)
SelectTrades(rows, view, i) ==
    IF i > Len(rows) THEN <<>>
    ELSE (IF view = Null \/ rows[i].view_id = view THEN <<rows[i]>> ELSE <<>>)
            \o SelectTrades(rows, view, i + 1)

\* a channel with what its callback closes over
Channel(id, view, f) == [id |-> id, viewId |-> view, filter |-> f]

ChartFetch(id, view, f, cause) == [id |-> id, viewId |-> view, filter |-> f, cause |-> cause]

\* mutant of RemoveChannel: the cleanup leaves the channel subscribed
RemoveChannelNot(chs, channel) == chs

\* line 152: supabase.removeChannel(channel)
RemoveChannel(chs, channel) == chs \ {channel}

\* lines 151-153: the cleanup of the effect run that created the channels
\* now subscribed
Cleanup ==
    IF channels = {} THEN {}
    ELSE LET channel == CHOOSE c \in channels : \A d \in channels : d.id <= c.id
         IN  RemoveChannel(channels, channel)

\* lines 91-149: the effect runs for a render with (view, f): fetchData()
\* is called and runs to its await, and a channel is subscribed
RunEffect(chs, view, f) ==
    /\ chartFetches' = chartFetches \cup {ChartFetch(fetchSeq + 1, view, f, "effect")}
    /\ fetchSeq' = fetchSeq + 1
    /\ channels' = chs \cup {Channel(effectRuns + 1, view, f)}
    /\ effectRuns' = effectRuns + 1

\* the view parameter of the URL changes: cleanup, then the effect
ChangeView ==
    /\ UNCHANGED notChart
    /\ cMounted
    /\ effectRuns < MaxEffectRuns
    /\ \E view \in ViewIds \ {cViewId} :
          /\ cViewId' = view
          /\ RunEffect(Cleanup, view, cFilter)
    /\ UNCHANGED <<cMounted, cFilter, eventsReceived, chartData, chartToasts>>

\* the parent passes another filter: cleanup, then the effect
ChangeFilter ==
    /\ UNCHANGED notChart
    /\ cMounted
    /\ effectRuns < MaxEffectRuns
    /\ \E f \in Filters \ {cFilter} :
          /\ cFilter' = f
          /\ RunEffect(Cleanup, cViewId, f)
    /\ UNCHANGED <<cMounted, cViewId, eventsReceived, chartData, chartToasts>>

\* the component unmounts: cleanup
ChartUnmount ==
    /\ UNCHANGED notChart
    /\ cMounted
    /\ cMounted' = FALSE
    /\ channels' = Cleanup
    /\ UNCHANGED <<cViewId, cFilter, chartFetches, fetchSeq, eventsReceived, effectRuns,
                   chartData, chartToasts>>

\* the fetchData calls the callbacks of the channels chs start (line 146),
\* numbered from n + 1
RECURSIVE EventFetches(_, _)
EventFetches(chs, n) ==
    IF chs = {} THEN {}
    ELSE LET c == CHOOSE x \in chs : \A d \in chs : x.id <= d.id
         IN  {ChartFetch(n + 1, c.viewId, c.filter, "event")}
                \cup EventFetches(chs \ {c}, n + 1)

\* lines 144-147: a row of prediction_trades changes; every subscribed
\* channel delivers the event to its callback
ChartEvent ==
    /\ UNCHANGED notChart
    /\ eventsReceived < MaxChartEvents
    /\ channels # {}
    /\ eventsReceived' = eventsReceived + 1
    /\ chartFetches' = chartFetches \cup EventFetches(channels, fetchSeq)
    /\ fetchSeq' = fetchSeq + Cardinality(channels)
    /\ UNCHANGED <<cMounted, cViewId, cFilter, channels, effectRuns, chartData, chartToasts>>

\* lines 104-129: the query of a fetchData call returns
ChartFetchReturns ==
    /\ UNCHANGED notChart
    /\ \E f \in chartFetches :
          /\ chartFetches' = chartFetches \ {f}
          /\ \/ LET trades == SelectTrades(StoredTrades, f.viewId, 1)
                IN  /\ IF Len(trades) = 0 THEN chartData' = <<>>
                       ELSE \E sorted \in SortResults(trades) :
                               chartData' = ChartOf(sorted, f.filter)
                    /\ chartToasts' = chartToasts
             \/ /\ chartToasts' = chartToasts + 1
                /\ chartData' = chartData
    /\ UNCHANGED <<cMounted, cViewId, cFilter, channels, fetchSeq, eventsReceived,
                   effectRuns>>

\* the component is not mounted
ChartIdle ==
    /\ cMounted = FALSE
    /\ cViewId = Null
    /\ cFilter = "none"
    /\ channels = {}
    /\ chartFetches = {}
    /\ fetchSeq = 0
    /\ eventsReceived = 0
    /\ effectRuns = 0
    /\ chartData = <<>>
    /\ chartToasts = 0

(***************************************************************************)
(* The Assets page (src/src/pages/Assets.tsx): checkAuth (lines 19-32) and *)
(* the assets query (lines 34-60).  fetchBinanceBalances is a call of the  *)
(* queryFn that resolves or rejects.                                       *)
(***************************************************************************)
\* runs of the queryFn in one run of the page
MaxAssetRuns == 3
\* retries of a failed query before it enters the error state
MaxRetries == 1

\* what the assets table holds after a balance sync
AssetTables == {<<>>, <<"BTC", "ETH">>}

AssetCall(call, outcome) == [call |-> call, outcome |-> outcome]

\* the session ends: the user signs out, or the session expires
ASessionEnds ==
    /\ UNCHANGED notAssets
    /\ aSession # Null
    /\ aSession' = Null
    /\ UNCHANGED <<assetsTable, aMounted, authAt, assetsAt, assetsStatus, assets,
                   failureCount, assetRuns, assetCalls, assetToasts>>

\* lines 20-30: getSession of checkAuth returns; without a session the
\* router leaves the page
CheckAuthReturns ==
    /\ UNCHANGED notAssets
    /\ authAt = "getSession"
    /\ authAt' = "done"
    /\ aMounted' = (aMounted /\ aSession # Null)
    /\ UNCHANGED <<aSession, assetsTable, assetsAt, assetsStatus, assets,
                   failureCount, assetRuns, assetCalls, assetToasts>>

\* lines 36-39: a run of the queryFn starts with fetchBinanceBalances()
StartAssetsRun ==
    /\ assetsAt' = "sync"
    /\ assetRuns' = assetRuns + 1

\* line 59 (refetchInterval: 30000), and the retry of a failed run
AssetsRefetch ==
    /\ UNCHANGED notAssets
    /\ aMounted
    /\ assetsAt = "idle"
    /\ assetRuns < MaxAssetRuns
    /\ \/ assetsStatus \in {"success", "error"}
       \/ assetsStatus = "pending" /\ failureCount > 0
    /\ StartAssetsRun
    /\ UNCHANGED <<aSession, assetsTable, aMounted, authAt, assetsStatus, assets,
                   failureCount, assetCalls, assetToasts>>

\* lines 49-57: the catch block shows the toast and throws the error on;
\* the query retries, or enters the error state once the retries are used up
RunFails ==
    /\ assetsAt' = "idle"
    /\ assetToasts' = assetToasts + 1
    /\ assets' = assets
    /\ failureCount' = failureCount + 1
    /\ assetsStatus' = IF failureCount < MaxRetries THEN assetsStatus ELSE "error"

\* mutant of SyncFailed: a rejected balance sync is ignored
SyncFailedIgnored(outcome) == FALSE

\* line 39: await fetchBinanceBalances() throws when the promise rejects
SyncFailed(outcome) == outcome = "rejected"

\* lines 39-45: fetchBinanceBalances returns; on success the read of the
\* assets table is issued
SyncReturns ==
    /\ UNCHANGED notAssets
    /\ assetsAt = "sync"
    /\ \E o \in {"resolved", "rejected"} :
          /\ assetCalls' = Append(assetCalls, AssetCall("fetchBinanceBalances", o))
          /\ IF SyncFailed(o)
             THEN /\ RunFails
                  /\ assetsTable' = assetsTable
             ELSE /\ assetsAt' = "read"
                  /\ IF o = "resolved" THEN assetsTable' \in AssetTables
                     ELSE assetsTable' = assetsTable
                  /\ UNCHANGED <<assetsStatus, assets, failureCount, assetToasts>>
    /\ UNCHANGED <<aSession, aMounted, authAt, assetRuns>>

\* lines 42-57: the read of the assets table returns
ReadReturns ==
    /\ UNCHANGED notAssets
    /\ assetsAt = "read"
    /\ \E o \in {"ok", "error"} :
          /\ assetCalls' = Append(assetCalls, AssetCall("select", o))
          /\ IF o = "error"
             THEN RunFails
             ELSE /\ assetsAt' = "idle"
                  /\ assets' = <<assetsTable>>
                  /\ assetsStatus' = "success"
                  /\ failureCount' = 0
                  /\ assetToasts' = assetToasts
    /\ UNCHANGED <<aSession, assetsTable, aMounted, authAt, assetRuns>>

\* the page is not mounted
AssetsIdle ==
    /\ aSession = Null
    /\ assetsTable = <<>>
    /\ aMounted = FALSE
    /\ authAt = "done"
    /\ assetsAt = "idle"
    /\ assetsStatus = "pending"
    /\ assets = <<>>
    /\ failureCount = 0
    /\ assetRuns = 0
    /\ assetCalls = <<>>
    /\ assetToasts = 0

\* the component is not mounted
TSIdle ==
    /\ session = Null
    /\ trade_views = {}
    /\ insertRequests = <<>>
    /\ started = FALSE
    /\ isTradeNameDialogOpen = FALSE
    /\ tradeView = [id |-> 0, currentIndex |-> 0]
    /\ coins = <<>>
    /\ handlers = {}
    /\ invocations = 0
    /\ lastStep = Silent("none", "none")

\* the handler is not running
WhaleIdle ==
    /\ req = [method |-> "OPTIONS", authorization |-> FALSE]
    /\ exchange = <<>>
    /\ pc = "idle"
    /\ user = Null
    /\ apiKeys = Null
    /\ usdtPairs = <<>>
    /\ pairIdx = 0
    /\ whaleTrades = <<>>
    /\ tradeIdx = 0
    /\ whales = <<>>
    /\ response = NoResponse
    /\ inflight = {}
    /\ returned = {}
    /\ issued = <<>>
    /\ outcomes = {}

\* the component after its first render; the coin search is outstanding
InitSentiment ==
    /\ AssetsIdle
    /\ ChartIdle
    /\ ProcessIdle
    /\ WhaleIdle
    /\ TSIdle
    /\ VolatileIdle
    /\ served \in Served
    /\ availableCoins = <<>>
    /\ loadingCoins = TRUE
    /\ selectedCoin = ""
    /\ sentimentData = <<>>
    /\ loading = FALSE
    /\ sentimentFetches = {}
    /\ fetchCount = 0
    /\ sentimentToasts = 0
    /\ stats = calculateSentiments(<<>>)

\* the component is not mounted
SentimentIdle ==
    /\ served = <<>>
    /\ availableCoins = <<>>
    /\ loadingCoins = FALSE
    /\ selectedCoin = ""
    /\ sentimentData = <<>>
    /\ loading = FALSE
    /\ sentimentFetches = {}
    /\ fetchCount = 0
    /\ sentimentToasts = 0
    /\ stats = Counts(0, 0, 0, 0)

NextSentiment ==
    \/ FetchCoinsReturns
    \/ SelectCoin
    \/ SentimentReturns

\* an invocation arrives; the other parts are at rest
InitWhale ==
    /\ AssetsIdle
    /\ ChartIdle
    /\ ProcessIdle
    /\ SentimentIdle
    /\ TSIdle
    /\ VolatileIdle
    /\ req \in Requests
    /\ exchange \in Listings
    /\ pc = "start"
    /\ user = Null
    /\ apiKeys = Null
    /\ usdtPairs = <<>>
    /\ pairIdx = 0
    /\ whaleTrades = <<>>
    /\ tradeIdx = 0
    /\ whales = <<>>
    /\ response = NoResponse
    /\ inflight = {}
    /\ returned = {}
    /\ issued = <<>>
    /\ outcomes = {}

NextWhale ==
    \/ HandleRequest
    \/ Settle
    \/ AfterGetUser
    \/ AfterApiKeys
    \/ AfterExchangeInfo
    \/ AfterTrades
    \/ AfterUpsert

SpecWhale == InitWhale /\ [][NextWhale]_vars

\* every outbound call settles, and the handler goes on when it can
SpecWhaleFair == SpecWhale /\ WF_vars(NextWhale)

\* the component once useCoinData has resolved: nothing started
InitTS ==
    /\ AssetsIdle
    /\ ChartIdle
    /\ ProcessIdle
    /\ WhaleIdle
    /\ SentimentIdle
    /\ VolatileIdle
    /\ session \in Users \cup {Null}
    /\ trade_views \in EarlierViews
    /\ insertRequests = <<>>
    /\ started = FALSE
    /\ isTradeNameDialogOpen = FALSE
    /\ tradeView = [id |-> 0, currentIndex |-> 0]
    /\ coins \in CoinLoads
    /\ handlers = {}
    /\ invocations = 0
    /\ lastStep = Silent("none", "none")

NextTS ==
    \/ SessionEnds
    \/ handleStart
    \/ handleCreateTradeView
    \/ CreateAfterSession
    \/ CreateAfterCheck
    \/ CreateAfterInsert
    \/ handleNext
    \/ NextAfterInsert
    \/ handleBuy
    \/ BuyAfterInsert

SpecTS == InitTS /\ [][NextTS]_vars

\* the component after its first render: the first run of the queryFn is
\* at getSession and the channel is subscribed
InitVolatile ==
    /\ AssetsIdle
    /\ ChartIdle
    /\ ProcessIdle
    /\ WhaleIdle
    /\ SentimentIdle
    /\ TSIdle
    /\ vSession \in {"u1", Null}
    /\ volatile_trades = {}
    /\ undelivered = 0
    /\ mounted = TRUE
    /\ subscribed = TRUE
    /\ queryAt = "getSession"
    /\ queryStatus = "pending"
    /\ volatileCoins = <<>>
    /\ changeEvents = 0
    /\ callbackErrors = 0
    /\ tradeClicks = {}
    /\ clickCount = 0
    /\ tradeInserts = <<>>
    /\ location = 0
    /\ vLastStep = Silent("none", "none")

NextVolatile ==
    \/ VSessionEnds
    \/ RefetchInterval
    \/ QueryAfterSession
    \/ QueryAfterInvoke
    \/ OtherChange
    \/ ChangeEvent
    \/ VolatileUnmount
    \/ handleTradeClick
    \/ TradeAfterSession
    \/ TradeAfterInsert

SpecVolatile == InitVolatile /\ [][NextVolatile]_vars

\* processTradesData is called with some trades, under some filter
InitProcess ==
    /\ AssetsIdle
    /\ ChartIdle
    /\ WhaleIdle
    /\ SentimentIdle
    /\ TSIdle
    /\ VolatileIdle
    /\ pTrades \in TradeLists
    /\ pFilter \in Filters
    /\ sortedTrades = <<>>
    /\ chartResult = <<>>
    /\ pPc = "start"

NextProcess ==
    \/ SortTrades
    \/ BuildChart

SpecProcess == InitProcess /\ [][NextProcess]_vars

\* the component after its first render and the first run of the effect
InitChart ==
    /\ AssetsIdle
    /\ WhaleIdle
    /\ SentimentIdle
    /\ TSIdle
    /\ VolatileIdle
    /\ ProcessIdle
    /\ cMounted = TRUE
    /\ cViewId \in ViewIds
    /\ cFilter \in Filters
    /\ channels = {Channel(1, cViewId, cFilter)}
    /\ chartFetches = {ChartFetch(1, cViewId, cFilter, "effect")}
    /\ fetchSeq = 1
    /\ eventsReceived = 0
    /\ effectRuns = 1
    /\ chartData = <<>>
    /\ chartToasts = 0

NextChart ==
    \/ ChangeView
    \/ ChangeFilter
    \/ ChartUnmount
    \/ ChartEvent
    \/ ChartFetchReturns

SpecChart == InitChart /\ [][NextChart]_vars

\* the page after its first render: checkAuth is at getSession and the
\* first run of the queryFn at fetchBinanceBalances
InitAssets ==
    /\ WhaleIdle
    /\ SentimentIdle
    /\ TSIdle
    /\ VolatileIdle
    /\ ProcessIdle
    /\ ChartIdle
    /\ aSession \in {"u1", Null}
    /\ assetsTable \in AssetTables
    /\ aMounted = TRUE
    /\ authAt = "getSession"
    /\ assetsAt = "sync"
    /\ assetsStatus = "pending"
    /\ assets = <<>>
    /\ failureCount = 0
    /\ assetRuns = 1
    /\ assetCalls = <<>>
    /\ assetToasts = 0

NextAssets ==
    \/ ASessionEnds
    \/ CheckAuthReturns
    \/ AssetsRefetch
    \/ SyncReturns
    \/ ReadReturns

SpecAssets == InitAssets /\ [][NextAssets]_vars

(***************************************************************************)
(* Properties of the edge function.                                        *)
(***************************************************************************)
IssuedCalls == {issued[i] : i \in 1..Len(issued)}

IssuedOf(kinds) == {c \in IssuedCalls : c.kind \in kinds}

TradeSet(symbol) == {TradesOf(symbol)[i] : i \in 1..Len(TradesOf(symbol))}

\* every trade the exchange serves
AllTrades == UNION {TradeSet(symbol) : symbol \in 1..NumSymbols}

\* the trades with price * qty >= 100000
WorthThreshold ==
    {t \in AllTrades :
        LET price == parseFloat(t.price)
            qty == parseFloat(t.qty)
        IN  /\ price # NaN
            /\ qty # NaN
            /\ price * qty >= WHALE_THRESHOLD * Scale * Scale}

NotionalAtLeastThreshold(trade) == trade \in WorthThreshold

TradeOfCall(call) == CHOOSE t \in AllTrades : t.id = call.id

\* the loop has left the pair at position k of usdtPairs
PairOver(k) == pairIdx > k \/ (pc = "done" /\ response.kind = "success")

\* C1: every trade an upsert is issued for, and every trade of the whales
\* list, is worth price * qty >= 100000; and once the loop has left a pair
\* whose trades request succeeded, an upsert has been issued for every
\* fetched trade of the pair worth price * qty >= 100000.
C1_WhaleThreshold ==
    /\ \A c \in IssuedOf({"upsert"}) : NotionalAtLeastThreshold(TradeOfCall(c))
    /\ \A i \in 1..Len(whales) : NotionalAtLeastThreshold(whales[i])
    /\ \A i \in 1..Len(response.whales) : NotionalAtLeastThreshold(response.whales[i])
    /\ \A k \in 1..Len(usdtPairs) :
          (PairOver(k) /\ [call |-> TradesCall(usdtPairs[k]), outcome |-> "ok"] \in outcomes)
              => \A t \in TradeSet(usdtPairs[k]) :
                    NotionalAtLeastThreshold(t)
                        => UpsertCall(usdtPairs[k], t) \in IssuedCalls

\* a finished invocation that fetched a trade of exactly 100000 and one
\* just below, and answered with several whales
C1_Witness ==
    /\ pc = "done"
    /\ response.kind = "success"
    /\ Len(response.whales) >= 3
    /\ \E c \in IssuedOf({"upsert"}) :
          parseFloat(TradeOfCall(c).price) * parseFloat(TradeOfCall(c).qty)
              = WHALE_THRESHOLD * Scale * Scale
    /\ \E k \in 1..Len(usdtPairs) :
          /\ [call |-> TradesCall(usdtPairs[k]), outcome |-> "ok"] \in outcomes
          /\ \E t \in TradeSet(usdtPairs[k]) : UpsertCall(usdtPairs[k], t) \notin IssuedCalls

AuthFailed ==
    \/ ~req.authorization
    \/ [call |-> GetUserCall, outcome |-> "error"] \in outcomes
    \/ [call |-> ApiKeysCall, outcome |-> "error"] \in outcomes

AuthMessage ==
    IF ~req.authorization THEN "No authorization header"
    ELSE IF [call |-> GetUserCall, outcome |-> "error"] \in outcomes THEN "Unauthorized"
    ELSE "API keys not found"

\* C2: an exchange request or an upsert is issued only after the
\* Authorization header was found, getUser returned a user and the api_keys
\* row was retrieved; when one of these steps fails no exchange request and
\* no upsert is issued, and the invocation responds with status 500 and the
\* error's message.
C2_AuthBeforeOutbound ==
    /\ IssuedOf({"exchangeInfo", "trades", "upsert"}) # {}
          => /\ req.authorization
             /\ [call |-> GetUserCall, outcome |-> "user"] \in outcomes
             /\ [call |-> ApiKeysCall, outcome |-> "row"] \in outcomes
             /\ user # Null
             /\ apiKeys # Null
    /\ (req.method # "OPTIONS" /\ AuthFailed)
          => /\ IssuedOf({"exchangeInfo", "trades", "upsert"}) = {}
             /\ pc = "done" => response = Resp(500, "error", AuthMessage, <<>>)

\* an invocation answered 500 because the api_keys row was not found
C2_Witness ==
    /\ pc = "done"
    /\ [call |-> GetUserCall, outcome |-> "user"] \in outcomes
    /\ [call |-> ApiKeysCall, outcome |-> "error"] \in outcomes
    /\ response.status = 500

FailedSymbols == {o.call.symbol : o \in Settled("trades", FailedTrades)}

\* C3: a pair whose trades request returns a non-ok response or throws
\* contributes no upsert and no entry of whales; the loop goes on with the
\* pairs after it, and the invocation ends with the success response.
C3_FailedPairSkipped ==
    /\ \A c \in IssuedOf({"upsert"}) : c.symbol \notin FailedSymbols
    /\ \A i \in 1..Len(whales) : \A sym \in FailedSymbols :
          whales[i] \notin TradeSet(sym)
    /\ \A k \in 1..Len(usdtPairs) :
          (usdtPairs[k] \in FailedSymbols /\ ~Awaited(TradesCall(usdtPairs[k])))
              => \/ pairIdx > k /\ pc \in {"trades", "upsert"}
                                /\ TradesCall(usdtPairs[pairIdx]) \in IssuedCalls
                 \/ pairIdx > k /\ pc = "done"
    /\ (pc = "done" /\ FailedSymbols # {})
          => /\ response.status = 200
             /\ response.kind = "success"
             /\ response.whales = whales
             /\ \A k \in 1..Len(usdtPairs) : TradesCall(usdtPairs[k]) \in IssuedCalls

\* a finished invocation in which a pair that is not the last one failed
\* and a later pair had its whale trades upserted
C3_Witness ==
    /\ pc = "done"
    /\ \E k \in 1..Len(usdtPairs) :
          /\ usdtPairs[k] \in FailedSymbols
          /\ \E m \in (k + 1)..Len(usdtPairs) :
                \E c \in IssuedOf({"upsert"}) : c.symbol = usdtPairs[m]

Qualifies(i) == exchange[i].quoteAsset = "USDT" /\ exchange[i].status = "TRADING"

\* position of a symbol among the qualifying symbols, in exchange-info order
RankOf(i) == Cardinality({j \in 1..i : Qualifies(j)})

\* C4: the trades endpoint is requested only for symbols whose quoteAsset
\* is USDT and whose status is TRADING, only for the first 10 of them in
\* exchange-info order, in that order, and at most once per symbol.
C4_OnlyFirstTenUsdtPairs ==
    /\ \A c \in IssuedOf({"trades"}) :
          \E i \in 1..Len(exchange) :
             /\ exchange[i].symbol = c.symbol
             /\ Qualifies(i)
             /\ RankOf(i) <= 10
    /\ \A i, j \in 1..Len(issued) :
          (i < j /\ issued[i].kind = "trades" /\ issued[j].kind = "trades")
              => issued[i].symbol < issued[j].symbol

\* a finished invocation on an exchange with more than 10 qualifying
\* symbols, one of whose requests failed
C4_Witness ==
    /\ pc = "done"
    /\ Cardinality({i \in 1..Len(exchange) : Qualifies(i)}) > 10
    /\ Cardinality(IssuedOf({"trades"})) = 10
    /\ FailedSymbols # {}

SettledCalls == {o.call : o \in outcomes}

\* C5: at most one outbound call is outstanding at any time, it is the call
\* issued last, and every call issued before it has completed; so the
\* trades request of a pair is issued only after the trades request and
\* every upsert of the pair before it have completed.
C5_Sequential ==
    /\ Cardinality(inflight) <= 1
    /\ \A i \in 1..Len(issued) :
          \/ issued[i] \in SettledCalls /\ issued[i] \notin inflight
          \/ i = Len(issued) /\ inflight = {issued[i]}

\* the trades request of a pair is outstanding after the upserts of the
\* pair before it
C5_Witness ==
    /\ Len(issued) >= 2
    /\ issued[Len(issued)].kind = "trades"
    /\ issued[Len(issued) - 1].kind = "upsert"
    /\ inflight = {issued[Len(issued)]}

UpsertErrors == {o.call : o \in Settled("upsert", {"error"})}

PairIndex(symbol) == CHOOSE k \in 1..Len(usdtPairs) : usdtPairs[k] = symbol

InSeq(x, s) == \E i \in 1..Len(s) : s[i] = x

\* C17: an upsert that returned an error changes nothing in what follows:
\* the handler goes on with the next call; once the loop has left the pair,
\* an upsert has been issued for every whale trade of the pair and the
\* trade is in whales; the invocation ends with the success response, the
\* trade in its whales list, every pair requested.
C17_UpsertErrorOnlyLogged ==
    \A c \in UpsertErrors :
        ~Awaited(c)
            => /\ pc # "done"
                     => /\ pc \in {"upsert", "trades"}
                        /\ issued[Len(issued)] # c
                        /\ response = NoResponse
               /\ PairOver(PairIndex(c.symbol))
                     => /\ \A i \in 1..Len(WhaleFilter(TradesOf(c.symbol))) :
                              UpsertCall(c.symbol, WhaleFilter(TradesOf(c.symbol))[i])
                                  \in IssuedCalls
                        /\ InSeq(TradeOfCall(c), whales)
               /\ pc = "done"
                     => /\ response = Resp(200, "success", "", whales)
                        /\ InSeq(TradeOfCall(c), response.whales)
                        /\ \A k \in 1..Len(usdtPairs) :
                              TradesCall(usdtPairs[k]) \in IssuedCalls

\* a finished invocation in which an upsert failed that was followed by
\* another upsert of the same pair and by the request of a later pair
C17_Witness ==
    /\ pc = "done"
    /\ \E c \in UpsertErrors : \E i, j \in 1..Len(issued) :
          /\ issued[i] = c
          /\ i < Len(issued)
          /\ issued[i + 1].kind = "upsert"
          /\ issued[i + 1].symbol = c.symbol
          /\ j > i
          /\ issued[j].kind = "trades"

ExchangeInfoFailed ==
    \E o \in Settled("exchangeInfo", {"throw", "nosymbols"}) : TRUE

\* C18: every invocation ends with a response, and with one only: no
\* response before the handler returns and no change of it after; the
\* response is status 500 with an error message if the Authorization
\* header, getUser, the api_keys query or the exchange-info step failed,
\* else status 200 with success and the whales once the loop over the
\* pairs is over; an OPTIONS request is answered in the first step of the
\* handler, with no outbound call.
C18_TerminatesWithOneResponse ==
    /\ <>(pc = "done")
    /\ [](pc # "done" => response = NoResponse)
    /\ [](pc = "done" =>
            /\ inflight = {}
            /\ IF req.method = "OPTIONS"
               THEN response = Resp(200, "preflight", "", <<>>) /\ issued = <<>>
               ELSE IF AuthFailed \/ ExchangeInfoFailed
               THEN /\ response.status = 500
                    /\ response.kind = "error"
                    /\ response.error # ""
                    /\ IssuedOf({"trades", "upsert"}) = {}
               ELSE /\ response = Resp(200, "success", "", whales)
                    /\ pairIdx = Len(usdtPairs) + 1)
    /\ [][/\ pc = "done" => (pc' = "done" /\ response' = response)
          /\ (pc = "start" /\ req.method = "OPTIONS") => pc' = "done"]_vars

\* a finished invocation that failed at the exchange-info step
C18_Witness ==
    /\ pc = "done"
    /\ ExchangeInfoFailed
    /\ response.status = 500

SpecSentiment == InitSentiment /\ [][NextSentiment]_vars

(***************************************************************************)
(* Properties of CoinSentimentView.                                        *)
(***************************************************************************)
\* the comments of the videos, each named by its video and its position
CommentsOf(videos) ==
    {p \in (1..Len(videos)) \X (1..MaxComments) : p[2] <= Len(videos[p[1]].comments)}

Having(videos, indicators) ==
    Cardinality({p \in CommentsOf(videos) :
                    videos[p[1]].comments[p[2]].indicator \in indicators})

\* C6: calculateSentiments returns buy = the number of comments with
\* indicator 'buy', sell = the number with 'sell', others = the number of
\* the remaining comments and total = buy + sell + others = the number of
\* comments of all videos; without sentiment data all four are 0.
C6_SentimentCounts ==
    IF sentimentData = <<>> \/ sentimentData[1].videos = <<>>
    THEN stats = Counts(0, 0, 0, 0)
    ELSE LET videos == sentimentData[1].videos[1]
         IN  /\ stats.buy = Having(videos, {"buy"})
             /\ stats.sell = Having(videos, {"sell"})
             /\ stats.others = Having(videos, Indicators \ {"buy", "sell"})
             /\ stats.total = Cardinality(CommentsOf(videos))
             /\ stats.total = stats.buy + stats.sell + stats.others

\* two videos with a buy, a sell and another comment between them
C6_Witness ==
    /\ sentimentData # <<>>
    /\ sentimentData[1].videos # <<>>
    /\ Len(sentimentData[1].videos[1]) = 2
    /\ stats.buy = 1
    /\ stats.sell = 1
    /\ stats.others = 1
    /\ stats.total = 3

(***************************************************************************)
(* Properties of TradingSuggestions.                                       *)
(***************************************************************************)
\* C7: whenever the coin_indicators insert of handleNext or handleBuy
\* fails, by an error result or by throwing, the handler shows a
\* destructive toast.
C7_InsertFailureSurfaced ==
    (lastStep.kind \in {"next", "buy"} /\ lastStep.outcome \in {"error", "throw"})
        => lastStep.toast = "destructive"

RequestedFor(viewId, coin) ==
    \E k \in 1..Len(insertRequests) :
        /\ insertRequests[k].trade_view_id = viewId
        /\ insertRequests[k].coin_symbol = coin

\* C8: for every index i < tradeView.currentIndex an insert for coins[i]
\* with the active trade view's id has been issued.
C8_NoCoinSkipped ==
    \A i \in 0..(tradeView.currentIndex - 1) :
        CoinAt(i) # <<>> => RequestedFor(tradeView.id, CoinAt(i)[1])

CreateFails ==
    /\ \E h \in handlers : h.kind = "create" /\ handlers' = handlers \ {h}
    /\ lastStep'.toast = "destructive"

\* C10: started implies that tradeView.id is the id of a row of trade_views;
\* a handleCreateTradeView call that finds no session or an existing view
\* of the name, or gets an error from a backend call, changes neither
\* started nor tradeView and inserts no row.
C10_StartedHasView ==
    [][/\ started' => \E row \in trade_views' : row.id = tradeView'.id
       /\ (~started /\ started')
             => /\ tradeView'.id = Cardinality(trade_views')
                /\ trade_views' # trade_views
       /\ CreateFails
             => /\ started' = started
                /\ tradeView' = tradeView
                /\ trade_views' = trade_views]_vars

\* the analysis has started and an overlapping call has failed since
C10_Witness ==
    /\ started
    /\ \E row \in trade_views : row.id = tradeView.id
    /\ lastStep.kind = "insert"
    /\ lastStep.toast = "destructive"

\* C11: on a non-empty coin list tradeView.currentIndex stays within
\* 0 .. coins.length - 1.
C11_IndexInRange ==
    coins # <<>> => tradeView.currentIndex \in 0..(Len(coins) - 1)

\* a step in which Buy is clicked
BuyClicked == \E h \in handlers' \ handlers : h.kind = "buy" /\ h.at = "insert"

\* a step in which the insert of the handleBuy call h returns without throwing
BuyReturned(h) ==
    /\ h \in handlers
    /\ h.kind = "buy"
    /\ h \notin handlers'
    /\ lastStep'.kind = "buy"
    /\ lastStep'.outcome # "throw"

\* C12: a Buy click with an active trade view and a current coin issues an
\* insert for that coin with user_response 'buy'; when that insert returns,
\* handleNext runs and issues a second insert for the same coin and the
\* same trade view without user_response, the index not having moved in
\* either step; the Next run then advances the index by at most one.
C12_BuyInsertsTwice ==
    [][/\ BuyClicked
             => /\ tradeView.id # 0
                /\ CoinAt(tradeView.currentIndex) # <<>>
                /\ insertRequests' = Append(insertRequests,
                       [trade_view_id |-> tradeView.id,
                        coin_symbol |-> coins[tradeView.currentIndex + 1],
                        user_response |-> "buy"])
                /\ tradeView' = tradeView
       /\ \A h \in handlers :
             BuyReturned(h)
                => /\ \E k \in 1..Len(insertRequests) :
                         insertRequests[k] = [trade_view_id |-> h.viewId,
                                              coin_symbol |-> coins[h.index + 1],
                                              user_response |-> "buy"]
                   /\ insertRequests' = Append(insertRequests,
                          [trade_view_id |-> h.viewId,
                           coin_symbol |-> coins[h.index + 1],
                           user_response |-> ""])
                   /\ tradeView' = tradeView
                   /\ \E n \in handlers' \ handlers :
                         n.kind = "next" /\ n.viewId = h.viewId /\ n.index = h.index
       /\ tradeView'.currentIndex <= tradeView.currentIndex + 1]_vars

\* one Buy has run to its end: two inserts for the first coin, the first
\* with user_response 'buy', and the index advanced to the second coin
C12_Witness ==
    /\ Len(insertRequests) = 2
    /\ insertRequests[1].user_response = "buy"
    /\ insertRequests[2] = [insertRequests[1] EXCEPT !.user_response = ""]
    /\ handlers = {}
    /\ lastStep.kind = "next"
    /\ tradeView.currentIndex = 1

(***************************************************************************)
(* Properties of CoinSentimentView under changes of the selection.         *)
(***************************************************************************)
\* C13: whenever sentimentData is non-null it is the response fetched for
\* the currently selected coin.
C13_DataOfSelectedCoin ==
    sentimentData # <<>> => sentimentData[1].coin = selectedCoin

(***************************************************************************)
(* Properties of CoinVolatileView.                                         *)
(***************************************************************************)
\* C14: every change event of volatile_trades the subscription delivers
\* starts a run of the volatile-coins query, unless one is running.
C14_ChangeEventRefetches ==
    [][(changeEvents' > changeEvents /\ queryAt = "idle")
          => queryAt' = "getSession"]_vars

\* a step in which the handleTradeClick call h ends
ClickEnds(h) == h \in tradeClicks /\ \A n \in tradeClicks' : n.hid # h.hid

\* C20: the router navigates only in a step in which an insert of a
\* handleTradeClick call returns a row, to the id of that row, whose
\* user_id is the user of the session the call found; no insert is issued
\* without a session; a call that finds no session or whose insert fails
\* navigates nowhere, adds no row and shows a destructive toast.
C20_NavigateAfterInsert ==
    [][/\ location' # location
             => \E h \in tradeClicks :
                   /\ ClickEnds(h)
                   /\ h.at = "insert"
                   /\ h.user \in Users
                   /\ vLastStep' = Plain("insert", "ok", "Trade created successfully")
                   /\ volatile_trades' \ volatile_trades =
                          {VolatileTrade(location', h.user, h.symbol)}
                   /\ \A row \in volatile_trades : row.id # location'
       /\ tradeInserts' # tradeInserts
             => /\ vSession \in Users
                /\ tradeInserts' = Append(tradeInserts, tradeInserts'[Len(tradeInserts')])
                /\ tradeInserts'[Len(tradeInserts')].user_id = vSession
       /\ \A h \in tradeClicks :
             (ClickEnds(h) /\ (h.at = "getSession" \/ vLastStep'.outcome \in {"error", "throw"}))
                => /\ location' = location
                   /\ volatile_trades' = volatile_trades
                   /\ tradeInserts' = tradeInserts
                   /\ vLastStep'.toast = "destructive"]_vars

\* two clicks of a signed-in user have run to their end: the router is at
\* the row the second insert returned
C20_Witness ==
    /\ location = 2
    /\ Cardinality(volatile_trades) = 2
    /\ \E row \in volatile_trades : row.id = location /\ row.user_id \in Users
    /\ tradeClicks = {}
    /\ vLastStep.kind = "insert"
    /\ vLastStep.outcome = "ok"

(***************************************************************************)
(* Properties of processTradesData.                                        *)
(***************************************************************************)
\* the trades that pass the filter and have a created_at and a numeric
\* profit_loss
ValidTrades ==
    {t \in {pTrades[i] : i \in 1..Len(pTrades)} :
        /\ Passes(pFilter, t)
        /\ t.created_at # <<>>
        /\ t.profit_loss # <<>>
        /\ t.profit_loss[1].type = "number"}

DateOfTrade(t) == t.created_at[1] \div HoursPerDay

ValidDates == {DateOfTrade(t) : t \in ValidTrades}

RECURSIVE SumOf(_)
SumOf(ts) ==
    IF ts = {} THEN 0
    ELSE LET t == CHOOSE x \in ts : TRUE
         IN  t.profit_loss[1].v + SumOf(ts \ {t})

\* profit_loss summed over the valid trades up to the end of a date
RunningSum(date) == SumOf({t \in ValidTrades : DateOfTrade(t) <= date})

\* C15: processTradesData returns one point per distinct calendar date of
\* the trades that pass the filter and have a created_at and a numeric
\* profit_loss, in chronological order, the value of a point being the sum
\* of profit_loss (to the hundredth) over all such trades up to the end of
\* its date; an empty input or an empty filtered list gives no point.
C15_ChartIsRunningSum ==
    pPc = "done"
        => /\ Len(chartResult) = Cardinality(ValidDates)
           /\ \A k \in 1..Len(chartResult) :
                 /\ chartResult[k].date \in ValidDates
                 /\ chartResult[k].value = toFixed2(RunningSum(chartResult[k].date))
           /\ \A k, m \in 1..Len(chartResult) :
                 k < m => chartResult[k].date < chartResult[m].date

(***************************************************************************)
(* Properties of CombinedPerformanceChart.                                 *)
(***************************************************************************)
\* C16: a change event delivered while the component is subscribed starts
\* a fetchData call restricted to the current view id; at most one channel
\* is subscribed at any time, it is the one the last run of the effect
\* created, for the current view id and filter, and none is left once the
\* component has unmounted.
C16_OneSubscriptionRefetches ==
    [][/\ (eventsReceived' > eventsReceived /\ channels # {})
             => \E f \in chartFetches' \ chartFetches :
                   /\ f.cause = "event"
                   /\ f.viewId = cViewId
                   /\ f.filter = cFilter
       /\ Cardinality(channels) <= 1
       /\ Cardinality(channels') <= 1
       /\ \A c \in channels' :
             c = Channel(effectRuns', cViewId', cFilter') /\ cMounted'
       /\ ~cMounted' => channels' = {}]_vars

\* the view id has changed, and an event received since has started a
\* fetchData call for the new view id while the only channel is the new one
C16_Witness ==
    /\ effectRuns = 2
    /\ cViewId = "v1"
    /\ eventsReceived = 1
    /\ channels = {Channel(2, "v1", cFilter)}
    /\ \E f \in chartFetches : f.cause = "event" /\ f.viewId = "v1"

(***************************************************************************)
(* Properties of the Assets query.                                         *)
(***************************************************************************)
\* a step in which a run of the queryFn ends by throwing
AssetsRunFails ==
    /\ Len(assetCalls') = Len(assetCalls) + 1
    /\ assetCalls'[Len(assetCalls')].outcome \in {"rejected", "error"}

\* C19: the read of the assets table is issued only in the step in which
\* fetchBinanceBalances of the same run resolves; a run whose balance sync
\* rejects or whose read fails returns no rows (the data of the query is
\* left as it was), shows an error notification and leaves the query
\* failed: in the error state once its retries are used up.
C19_ReadAfterSync ==
    [][/\ assetsAt' = "read"
             => \/ assetsAt = "read" /\ assetCalls' = assetCalls
                \/ /\ assetsAt = "sync"
                   /\ assetCalls' = Append(assetCalls,
                                           AssetCall("fetchBinanceBalances", "resolved"))
       /\ (Len(assetCalls') > Len(assetCalls) /\ assetCalls'[Len(assetCalls')].call = "select")
             => /\ Len(assetCalls) > 0
                /\ assetCalls[Len(assetCalls)] = AssetCall("fetchBinanceBalances", "resolved")
       /\ AssetsRunFails
             => /\ assets' = assets
                /\ assetToasts' = assetToasts + 1
                /\ assetsAt' = "idle"
                /\ failureCount' = failureCount + 1
                /\ failureCount' > MaxRetries => assetsStatus' = "error"
                /\ assetsStatus' # "success" \/ assetsStatus = "success"
       /\ (assetsStatus' = "success" /\ assets' # assets)
             => /\ Len(assetCalls') >= 2
                /\ assetCalls'[Len(assetCalls')] = AssetCall("select", "ok")
                /\ assetCalls'[Len(assetCalls') - 1] =
                       AssetCall("fetchBinanceBalances", "resolved")]_vars

\* the first run failed at the balance sync, its retry at the read of the
\* table: the query is in the error state without data, two notifications
\* were shown
C19_Witness ==
    /\ assetCalls = <<AssetCall("fetchBinanceBalances", "rejected"),
                      AssetCall("fetchBinanceBalances", "resolved"),
                      AssetCall("select", "error")>>
    /\ assetsStatus = "error"
    /\ assets = <<>>
    /\ assetToasts = 2

=============================================================================
